---------------------------- MODULE Spec2Model ----------------------------
(* A model of the streaming client of package sse (src/client.go) and of  *)
(* the event encoder (src/sse.go).                                        *)
(*                                                                        *)
(* src/client.go holds two designs of the client: the one whose Run takes *)
(* a context (lines 125-253) and the one with a timeout and an explicit   *)
(* Close (lines 1-123).  The variable `variant` says which one a          *)
(* behaviour is about; it is chosen in Init and never changes.            *)
(*                                                                        *)
(* Strings are sequences of one-character strings.  The channels eventC   *)
(* and close are unbuffered: a send and the matching receive are one      *)
(* joint step of the two goroutines.  buf and wire hold what the client   *)
(* handed to the connection: buf what was given to Write and not yet      *)
(* flushed, wire what was flushed.  The error a Write returns is recorded *)
(* in werr; streamData discards it.                                       *)
EXTENDS Naturals, Sequences, FiniteSets

VARIABLES
    variant,     \* "ctx": Run(ctx) of line 174; "timeout": Run() of line 58
    timeoutPos,  \* client.timeout > 0 (timeout variant)
    runPc,       \* position of the goroutine executing Run
    cur,         \* the local `event` of Run's select: the event dequeued last
    buf,         \* bytes written to client.w and not yet flushed
    wire,        \* bytes flushed to the connection
    werr,        \* a Write on client.w has returned an error
    done,        \* client.done is closed
    peerGone,    \* the CloseNotify channel holds its value
    ctxDone,     \* ctx.Done() is closed (ctx variant)
    timerFired,  \* timeoutC holds its value (timeout variant)
    exitCause,   \* the case of the select by which Run left its loop
    accepted,    \* history: the events received from eventC, in order
    sPc,         \* position of each goroutine calling Send
    sRes,        \* history: the results of each sender's Send calls, in order
    cPc,         \* position of each goroutine calling Close
    cCalls,      \* number of Close calls made so far
    obs,         \* what each observer last saw on the Done() channel
    hPc,         \* position of the goroutine executing Handler's function
    canFlush,    \* w implements http.Flusher
    canNotify,   \* w implements http.CloseNotifier
    initErr,     \* the error ClientInit returned ("nil" for none)
    headers,     \* the header fields set on w
    status,      \* the status code given to w.WriteHeader (0: none)
    encIn,       \* an Event given to the encoder
    encOut       \* what SSEEvent returned for it

vars == <<variant, timeoutPos, runPc, cur, buf, wire, werr, done, peerGone,
          ctxDone, timerFired, exitCause, accepted, sPc, sRes, cPc, cCalls,
          obs, hPc, canFlush, canNotify, initErr, headers, status, encIn,
          encOut>>

\* ------------------------------------------------------------- bounds
NSenders == 2    \* goroutines calling Send
MaxSends == 2    \* Send calls in all
NClosers == 2    \* goroutines calling Close
MaxCloses == 2   \* Close calls in all
NObservers == 1  \* goroutines polling Done()

Senders == 1..NSenders
Closers == 1..NClosers
Observers == 1..NObservers

\* ------------------------------------------------------------ strings
NL == "\n"

S_event == <<"e", "v", "e", "n", "t">>
S_data == <<"d", "a", "t", "a">>
S_id == <<"i", "d">>
S_retry == <<"r", "e", "t", "r", "y">>
S_open == <<"o", "p", "e", "n">>
S_close == <<"c", "l", "o", "s", "e">>

RECURSIVE Replace(_, _, _)
\* strings.Replace(data, old, new, -1) for a one-character old
Replace(data, old, new) ==
    IF data = <<>> THEN <<>>
    ELSE (IF Head(data) = old THEN new ELSE <<Head(data)>>)
         \o Replace(Tail(data), old, new)

\* mutant: a newline is kept and the line after it gets no field name
formatField_BareNewline(field, data, multiline) ==
    field \o <<":", " ">> \o data \o <<NL>>

formatField(field, data, multiline) ==
    LET newline_start == field \o <<":", " ">>
        newline_replace == IF multiline THEN <<NL>> \o newline_start ELSE <<>>
    IN  newline_start \o Replace(data, NL, newline_replace) \o <<NL>>

Msg(event, data, id, retry) ==
    [kind |-> "Msg", Event |-> event, Data |-> data, Id |-> id, Retry |-> retry]

Comment(text) == [kind |-> "Comment", text |-> text]

\* mutant: the id line is put before the data lines
MsgSSEEvent_IdFirst(msg) ==
    LET m1 == IF msg.Event # <<>> THEN formatField(S_event, msg.Event, FALSE)
              ELSE <<>>
        m2 == m1 \o (IF msg.Id # <<>> THEN formatField(S_id, msg.Id, FALSE)
                     ELSE <<>>)
        m3 == m2 \o (IF msg.Data # <<>> THEN formatField(S_data, msg.Data, TRUE)
                     ELSE <<>>)
        m4 == m3 \o (IF msg.Retry # <<>> THEN formatField(S_retry, msg.Retry, FALSE)
                     ELSE <<>>)
    IN  m4 \o <<NL>>

\* mutant: every field is formatted as data is
MsgSSEEvent_AllMultiline(msg) ==
    LET m1 == IF msg.Event # <<>> THEN formatField(S_event, msg.Event, TRUE)
              ELSE <<>>
        m2 == m1 \o (IF msg.Data # <<>> THEN formatField(S_data, msg.Data, TRUE)
                     ELSE <<>>)
        m3 == m2 \o (IF msg.Id # <<>> THEN formatField(S_id, msg.Id, TRUE)
                     ELSE <<>>)
        m4 == m3 \o (IF msg.Retry # <<>> THEN formatField(S_retry, msg.Retry, TRUE)
                     ELSE <<>>)
    IN  m4 \o <<NL>>

MsgSSEEvent(msg) ==
    LET m1 == IF msg.Event # <<>> THEN formatField(S_event, msg.Event, FALSE)
              ELSE <<>>
        m2 == m1 \o (IF msg.Data # <<>> THEN formatField(S_data, msg.Data, TRUE)
                     ELSE <<>>)
        m3 == m2 \o (IF msg.Id # <<>> THEN formatField(S_id, msg.Id, FALSE)
                     ELSE <<>>)
        m4 == m3 \o (IF msg.Retry # <<>> THEN formatField(S_retry, msg.Retry, FALSE)
                     ELSE <<>>)
    IN  m4 \o <<NL>>

CommentSSEEvent(comment) == formatField(<<>>, comment.text, TRUE) \o <<NL>>

\* the dynamic dispatch of event.SSEEvent()
SSEEvent(e) == IF e.kind = "Msg" THEN MsgSSEEvent(e) ELSE CommentSSEEvent(e)

openMsg == Msg(S_open, <<>>, <<>>, <<>>)
closeMsg == Msg(S_close, <<>>, <<>>, <<>>)

\* ------------------------------------------------- the application's events
NameChars == <<"a", "b", "c", "d", "e", "f">>
DigitChars == <<"1", "2", "3", "4", "5", "6">>

\* The k-th event sender s hands to Send.  The senders' events differ from
\* each other and from the open and close messages.
EventFor(s, k) ==
    IF s % 3 = 1 THEN Msg(<<NameChars[s]>>, <<DigitChars[k]>>, <<>>, <<>>)
    ELSE IF s % 3 = 2 THEN Msg(<<>>, <<NameChars[s], NL, DigitChars[k]>>, <<>>, <<>>)
    ELSE Comment(<<NameChars[s], DigitChars[k]>>)

NoEvent == [kind |-> "none"]

\* ------------------------------------------------------------- helpers
Last(seq) == seq[Len(seq)]

\* b occurs in w as a run of consecutive bytes
Contains(w, b) ==
    \E i \in 0..(Len(w) - Len(b)) :
        \A j \in 1..Len(b) : w[i + j] = b[j]

\* the bytes handed to the connection so far, flushed or not
conn == wire \o buf

RECURSIVE BlockEnd(_, _)
\* the index of the first blank line of w at or after index i + 1, the end
\* of w if there is none
BlockEnd(w, i) ==
    IF i >= Len(w) THEN Len(w)
    ELSE IF w[i] = NL /\ w[i + 1] = NL THEN i + 1
    ELSE BlockEnd(w, i + 1)

RECURSIVE BlocksFrom(_, _)
BlocksFrom(w, from) ==
    IF from > Len(w) THEN <<>>
    ELSE LET e == BlockEnd(w, from)
         IN  <<SubSeq(w, from, e)>> \o BlocksFrom(w, e + 1)

\* w cut after every blank line, as the consumer's parser cuts it; what
\* follows the last blank line, if anything, is the last element
Blocks(w) == BlocksFrom(w, 1)

\* ------------------------------------------------------------ ClientInit
\* the header fields ClientInit sets (client.go:160-162)
SSEHeaders ==
    { <<"Content-Type", "text/event-stream">>,
      <<"Cache-Control", "no-cache">>,
      <<"Connection", "keep-alive">> }

\* The state after a ClientInit that returned a client, called by the
\* application itself (hPc = "direct").
Init ==
    /\ variant \in {"ctx", "timeout"}
    /\ timeoutPos \in (IF variant = "timeout" THEN BOOLEAN ELSE {FALSE})
    /\ runPc = "init"
    /\ cur = NoEvent
    /\ buf = <<>>
    /\ wire = <<>>
    /\ werr = FALSE
    /\ done = FALSE
    /\ peerGone = FALSE
    /\ ctxDone = FALSE
    /\ timerFired = FALSE
    /\ exitCause = "none"
    /\ accepted = <<>>
    /\ sPc = [s \in Senders |-> "idle"]
    /\ sRes = [s \in Senders |-> <<>>]
    /\ cPc = [c \in Closers |-> "idle"]
    /\ cCalls = 0
    /\ obs = [o \in Observers |-> "never"]
    /\ hPc = "direct"
    /\ canFlush = TRUE
    /\ canNotify = TRUE
    /\ initErr = "nil"
    /\ headers = SSEHeaders
    /\ status = 0
    /\ encIn = NoEvent
    /\ encOut = <<>>

connVars == <<buf, wire, werr>>
envVars == <<peerGone, ctxDone, timerFired>>
sendVars == <<sPc, sRes>>
closeVars == <<cPc, cCalls>>
hVars == <<hPc, canFlush, canNotify, initErr, headers, status>>
encVars == <<encIn, encOut>>
\* what no operation of a client changes: the design, the timeout, the
\* state of Handler and the encoder's own input and output
cfgVars == <<variant, timeoutPos, hVars, encVars>>

\* ------------------------------------------------------------ streamData
\* fmt.Fprint(w, data...): one Write of the whole string; its error is dropped
Fprint(data) ==
    /\ buf' = buf \o data
    /\ \E ok \in BOOLEAN : werr' = (werr \/ ~ok)
    /\ wire' = wire

\* w.(http.Flusher).Flush()
Flush ==
    /\ wire' = wire \o buf
    /\ buf' = <<>>
    /\ werr' = werr

\* ------------------------------------------------------------------ Run
\* mutant: close(client.done) without `defer`, run as Run starts
RunCall_ClosesDone ==
    /\ runPc = "init"
    /\ runPc' = "writeOpen"
    /\ done' = TRUE
    /\ UNCHANGED <<cfgVars, cur, connVars, envVars, exitCause, accepted,
                   sendVars, closeVars, obs>>

RunCall ==
    /\ runPc = "init"
    /\ runPc' = "writeOpen"
    /\ UNCHANGED <<cfgVars, cur, connVars, done, envVars, exitCause, accepted,
                   sendVars, closeVars, obs>>

WriteOpen ==
    /\ runPc = "writeOpen"
    /\ Fprint(SSEEvent(openMsg))
    /\ runPc' = "flushOpen"
    /\ UNCHANGED <<cfgVars, cur, done, envVars, exitCause, accepted,
                   sendVars, closeVars, obs>>

FlushOpen ==
    /\ runPc = "flushOpen"
    /\ Flush
    /\ runPc' = "select"
    /\ UNCHANGED <<cfgVars, cur, done, envVars, exitCause, accepted,
                   sendVars, closeVars, obs>>

\* case event := <-client.eventC, together with Send's case client.eventC <- event
RecvEvent(s) ==
    /\ runPc = "select"
    /\ sPc[s] = "select"
    /\ cur' = EventFor(s, Len(sRes[s]) + 1)
    /\ accepted' = Append(accepted, cur')
    /\ runPc' = "writeEvent"
    /\ sPc' = [sPc EXCEPT ![s] = "idle"]
    /\ sRes' = [sRes EXCEPT ![s] = Append(@, "ok")]
    /\ UNCHANGED <<cfgVars, connVars, done, envVars, exitCause,
                   closeVars, obs>>

\* mutant: the dequeued event is not written
WriteEvent_Drops ==
    /\ runPc = "writeEvent"
    /\ runPc' = "flushEvent"
    /\ UNCHANGED <<cfgVars, cur, connVars, done, envVars, exitCause, accepted,
                   sendVars, closeVars, obs>>

WriteEvent ==
    /\ runPc = "writeEvent"
    /\ Fprint(SSEEvent(cur))
    /\ runPc' = "flushEvent"
    /\ UNCHANGED <<cfgVars, cur, done, envVars, exitCause, accepted,
                   sendVars, closeVars, obs>>

\* mutant: the event is written and left in the buffer
FlushEvent_NoFlush ==
    /\ runPc = "flushEvent"
    /\ runPc' = "select"
    /\ UNCHANGED <<cfgVars, cur, connVars, done, envVars, exitCause, accepted,
                   sendVars, closeVars, obs>>

FlushEvent ==
    /\ runPc = "flushEvent"
    /\ Flush
    /\ runPc' = "select"
    /\ UNCHANGED <<cfgVars, cur, done, envVars, exitCause, accepted,
                   sendVars, closeVars, obs>>

\* mutant: `break` without the label leaves the select, not the loop
BreakLoop_SelectOnly(cause) ==
    /\ runPc' = "select"
    /\ exitCause' = cause

\* break loop
BreakLoop(cause) ==
    /\ runPc' = "writeClose"
    /\ exitCause' = cause

\* mutant: Close returns as soon as its request is taken (no `for`)
RecvClose_CloseReturns(c) ==
    /\ variant = "timeout"
    /\ runPc = "select"
    /\ cPc[c] = "loop"
    /\ BreakLoop("close")
    /\ cPc' = [cPc EXCEPT ![c] = "idle"]
    /\ UNCHANGED <<cfgVars, cur, connVars, done, envVars, accepted,
                   sendVars, cCalls, obs>>

\* case <-client.close, together with Close's case client.close <- struct{}{}
RecvClose(c) ==
    /\ variant = "timeout"
    /\ runPc = "select"
    /\ cPc[c] = "loop"
    /\ BreakLoop("close")
    /\ UNCHANGED <<cfgVars, cur, connVars, done, envVars, accepted,
                   sendVars, closeVars, obs>>

\* mutant: `break` without the label in the case of CloseNotify
RecvCloseNotify_NoBreak ==
    /\ runPc = "select"
    /\ peerGone
    /\ UNCHANGED vars

\* case <-client.w.(http.CloseNotifier).CloseNotify()
RecvCloseNotify ==
    /\ runPc = "select"
    /\ peerGone
    /\ BreakLoop("peer")
    /\ UNCHANGED <<cfgVars, cur, connVars, done, envVars, accepted,
                   sendVars, closeVars, obs>>

\* case <-ctx.Done()
RecvCtxDone ==
    /\ variant = "ctx"
    /\ runPc = "select"
    /\ ctxDone
    /\ BreakLoop("ctx")
    /\ UNCHANGED <<cfgVars, cur, connVars, done, envVars, accepted,
                   sendVars, closeVars, obs>>

\* case <-timeoutC
RecvTimeout ==
    /\ variant = "timeout"
    /\ runPc = "select"
    /\ timerFired
    /\ BreakLoop("timeout")
    /\ UNCHANGED <<cfgVars, cur, connVars, done, envVars, accepted,
                   sendVars, closeVars, obs>>

\* mutant: close(client.done) before the close message is written
WriteClose_DoneFirst ==
    /\ runPc = "writeClose"
    /\ done' = TRUE
    /\ Fprint(SSEEvent(closeMsg))
    /\ runPc' = "flushClose"
    /\ UNCHANGED <<cfgVars, cur, envVars, exitCause, accepted,
                   sendVars, closeVars, obs>>

WriteClose ==
    /\ runPc = "writeClose"
    /\ Fprint(SSEEvent(closeMsg))
    /\ runPc' = "flushClose"
    /\ UNCHANGED <<cfgVars, cur, done, envVars, exitCause, accepted,
                   sendVars, closeVars, obs>>

\* mutant: the close message is flushed and the loop goes on
FlushClose_LoopsOn ==
    /\ runPc = "flushClose"
    /\ Flush
    /\ runPc' = "select"
    /\ UNCHANGED <<cfgVars, cur, done, envVars, exitCause, accepted,
                   sendVars, closeVars, obs>>

FlushClose ==
    /\ runPc = "flushClose"
    /\ Flush
    /\ runPc' = "closeDone"
    /\ UNCHANGED <<cfgVars, cur, done, envVars, exitCause, accepted,
                   sendVars, closeVars, obs>>

\* mutant: Run returns without closing client.done
CloseDone_NoSignal ==
    /\ runPc = "closeDone"
    /\ runPc' = "returned"
    /\ UNCHANGED <<cfgVars, cur, connVars, done, envVars, exitCause, accepted,
                   sendVars, closeVars, obs>>

\* close(client.done): the last statement of Run() and the deferred call of
\* Run(ctx); Run returns with it
CloseDone ==
    /\ runPc = "closeDone"
    /\ done' = TRUE
    /\ runPc' = "returned"
    /\ UNCHANGED <<cfgVars, cur, connVars, envVars, exitCause, accepted,
                   sendVars, closeVars, obs>>

\* ----------------------------------------------------------------- Send
RECURSIVE SumLen(_, _)
SumLen(f, S) ==
    IF S = {} THEN 0
    ELSE LET x == CHOOSE y \in S : TRUE IN Len(f[x]) + SumLen(f, S \ {x})

\* the Send calls made so far, returned or not
nSends == SumLen(sRes, Senders) + Cardinality({s \in Senders : sPc[s] = "select"})

\* mutant: Send writes its event to the connection itself
SendCall_Writes(s) ==
    /\ sPc[s] = "idle"
    /\ nSends < MaxSends
    /\ sPc' = [sPc EXCEPT ![s] = "select"]
    /\ Fprint(SSEEvent(EventFor(s, Len(sRes[s]) + 1)))
    /\ UNCHANGED <<cfgVars, runPc, cur, done, envVars, exitCause,
                   accepted, sRes, closeVars, obs>>

\* mutant: eventC has a buffer; Send leaves its event there and returns nil
SendCall_Buffered(s) ==
    /\ sPc[s] = "idle"
    /\ nSends < MaxSends
    /\ sRes' = [sRes EXCEPT ![s] = Append(@, "ok")]
    /\ UNCHANGED <<cfgVars, runPc, cur, connVars, done, envVars, exitCause,
                   accepted, sPc, closeVars, obs>>

SendCall(s) ==
    /\ sPc[s] = "idle"
    /\ nSends < MaxSends
    /\ sPc' = [sPc EXCEPT ![s] = "select"]
    /\ UNCHANGED <<cfgVars, runPc, cur, connVars, done, envVars, exitCause,
                   accepted, sRes, closeVars, obs>>

\* mutant: the done case falls through to `return nil`
SendClosed_ReturnsNil(s) ==
    /\ sPc[s] = "select"
    /\ done
    /\ sPc' = [sPc EXCEPT ![s] = "idle"]
    /\ sRes' = [sRes EXCEPT ![s] = Append(@, "ok")]
    /\ UNCHANGED <<cfgVars, runPc, cur, connVars, done, envVars, exitCause,
                   accepted, closeVars, obs>>

\* case <-client.done: return errors.New("message sent on closed client")
\* mutant: the error is returned when the event cannot be handed over at
\* once (`default:` in place of `case <-client.done:`)
SendClosed_NoWait(s) ==
    /\ sPc[s] = "select"
    /\ runPc # "select"
    /\ sPc' = [sPc EXCEPT ![s] = "idle"]
    /\ sRes' = [sRes EXCEPT ![s] = Append(@, "err")]
    /\ UNCHANGED <<cfgVars, runPc, cur, connVars, done, envVars, exitCause,
                   accepted, closeVars, obs>>

SendClosed(s) ==
    /\ sPc[s] = "select"
    /\ done
    /\ sPc' = [sPc EXCEPT ![s] = "idle"]
    /\ sRes' = [sRes EXCEPT ![s] = Append(@, "err")]
    /\ UNCHANGED <<cfgVars, runPc, cur, connVars, done, envVars, exitCause,
                   accepted, closeVars, obs>>

\* ---------------------------------------------------------------- Close
CloseCall(c) ==
    /\ variant = "timeout"
    /\ cPc[c] = "idle"
    /\ cCalls < MaxCloses
    /\ cPc' = [cPc EXCEPT ![c] = "loop"]
    /\ cCalls' = cCalls + 1
    /\ UNCHANGED <<cfgVars, runPc, cur, connVars, done, envVars, exitCause,
                   accepted, sendVars, obs>>

\* case <-client.done: return
CloseReturn(c) ==
    /\ cPc[c] = "loop"
    /\ done
    /\ cPc' = [cPc EXCEPT ![c] = "idle"]
    /\ UNCHANGED <<cfgVars, runPc, cur, connVars, done, envVars, exitCause,
                   accepted, sendVars, cCalls, obs>>

\* ----------------------------------------------------------------- Done
\* an observer polls the channel Done() returns
Observe(o) ==
    /\ variant = "ctx"
    /\ obs' = [obs EXCEPT ![o] = IF done THEN "set" ELSE "unset"]
    /\ obs' # obs
    /\ UNCHANGED <<cfgVars, runPc, cur, connVars, done, envVars, exitCause,
                   accepted, sendVars, closeVars>>

\* ---------------------------------------------------------- environment
PeerDisconnect ==
    /\ ~peerGone
    /\ peerGone' = TRUE
    /\ UNCHANGED <<cfgVars, runPc, cur, connVars, done, ctxDone, timerFired,
                   exitCause, accepted, sendVars, closeVars, obs>>

CtxCancel ==
    /\ variant = "ctx"
    /\ ~ctxDone
    /\ ctxDone' = TRUE
    /\ UNCHANGED <<cfgVars, runPc, cur, connVars, done, peerGone, timerFired,
                   exitCause, accepted, sendVars, closeVars, obs>>

\* time.After(client.timeout) delivers, once Run has created the timer
TimerFire ==
    /\ variant = "timeout"
    /\ timeoutPos
    /\ runPc # "init"
    /\ ~timerFired
    /\ timerFired' = TRUE
    /\ UNCHANGED <<cfgVars, runPc, cur, connVars, done, peerGone, ctxDone,
                   exitCause, accepted, sendVars, closeVars, obs>>

RunStep ==
    \/ WriteOpen
    \/ FlushOpen
    \/ WriteEvent
    \/ FlushEvent
    \/ WriteClose
    \/ FlushClose
    \/ CloseDone

Next ==
    \/ RunCall
    \/ RunStep
    \/ \E s \in Senders : RecvEvent(s)
    \/ \E c \in Closers : RecvClose(c)
    \/ RecvCloseNotify
    \/ RecvCtxDone
    \/ RecvTimeout
    \/ \E s \in Senders : SendCall(s)
    \/ \E s \in Senders : SendClosed(s)
    \/ \E c \in Closers : CloseCall(c)
    \/ \E c \in Closers : CloseReturn(c)
    \/ \E o \in Observers : Observe(o)
    \/ PeerDisconnect
    \/ CtxCancel
    \/ TimerFire

Spec == Init /\ [][Next]_vars

\* the select of Run, which proceeds when one of its cases is ready
RunSelect ==
    \/ \E s \in Senders : RecvEvent(s)
    \/ \E c \in Closers : RecvClose(c)
    \/ RecvCloseNotify
    \/ RecvCtxDone
    \/ RecvTimeout

\* The scheduler runs every goroutine that can run: Run's statements and
\* its select when a case is ready, and a Send or a Close whose done case
\* is ready; and the timer of time.After delivers.  The calls of Run, Send
\* and Close, the peer and the context are the application's and the
\* environment's, and nothing makes them happen.
Fairness ==
    /\ WF_vars(RunStep)
    /\ WF_vars(RunSelect)
    /\ \A s \in Senders : WF_vars(SendClosed(s))
    /\ \A c \in Closers : WF_vars(CloseReturn(c))
    /\ WF_vars(TimerFire)

\* the design whose Run takes a context (client.go:125-253)
CtxInit == Init /\ variant = "ctx"

CtxNext ==
    \/ RunCall
    \/ RunStep
    \/ \E s \in Senders : RecvEvent(s)
    \/ RecvCloseNotify
    \/ RecvCtxDone
    \/ \E s \in Senders : SendCall(s)
    \/ \E s \in Senders : SendClosed(s)
    \/ \E o \in Observers : Observe(o)
    \/ PeerDisconnect
    \/ CtxCancel

CtxFairSpec == CtxInit /\ [][CtxNext]_vars /\ Fairness

\* the design with a timeout and Close (client.go:1-123)
TimeoutInit == Init /\ variant = "timeout"

TimeoutNext ==
    \/ RunCall
    \/ RunStep
    \/ \E s \in Senders : RecvEvent(s)
    \/ \E c \in Closers : RecvClose(c)
    \/ RecvCloseNotify
    \/ RecvTimeout
    \/ \E s \in Senders : SendCall(s)
    \/ \E s \in Senders : SendClosed(s)
    \/ \E c \in Closers : CloseCall(c)
    \/ \E c \in Closers : CloseReturn(c)
    \/ PeerDisconnect
    \/ TimerFire

TimeoutFairSpec == TimeoutInit /\ [][TimeoutNext]_vars /\ Fairness

\* -------------------------------------------------------------- Handler
\* what a client's own operations work on
clientVars == <<runPc, cur, connVars, done, envVars, exitCause, accepted,
                sendVars, closeVars, obs>>

\* w.Header().Set(key, value)
SetHeader(h, key, value) == {x \in h : x[1] # key} \cup {<<key, value>>}

\* header fields a middleware may have set on w before Handler's function
PresetHeaders == { {}, {<<"Content-Type", "text/html">>} }

\* mutant: the header fields are set before w is checked
ClientInit_HeadersFirst ==
    /\ headers' = SetHeader(SetHeader(SetHeader(headers,
                      "Content-Type", "text/event-stream"),
                      "Cache-Control", "no-cache"),
                      "Connection", "keep-alive")
    /\ initErr' = IF ~canFlush THEN "streaming not supported"
                  ELSE IF ~canNotify THEN "unable to start close handler"
                  ELSE "nil"

\* ClientInit(w): the two checks of w, then the header fields; the client
\* it returns has the fields Init gives
ClientInit ==
    IF ~canFlush
    THEN /\ initErr' = "streaming not supported"
         /\ headers' = headers
    ELSE IF ~canNotify
    THEN /\ initErr' = "unable to start close handler"
         /\ headers' = headers
    ELSE /\ headers' = SetHeader(SetHeader(SetHeader(headers,
                           "Content-Type", "text/event-stream"),
                           "Cache-Control", "no-cache"),
                           "Connection", "keep-alive")
         /\ initErr' = "nil"

\* The state in which the function Handler returns is called with a
\* request.  No client exists yet; the client's variables hold what
\* ClientInit will give its fields.
HInit ==
    /\ variant = "ctx"
    /\ timeoutPos = FALSE
    /\ runPc = "init"
    /\ cur = NoEvent
    /\ buf = <<>>
    /\ wire = <<>>
    /\ werr = FALSE
    /\ done = FALSE
    /\ peerGone = FALSE
    /\ ctxDone = FALSE
    /\ timerFired = FALSE
    /\ exitCause = "none"
    /\ accepted = <<>>
    /\ sPc = [s \in Senders |-> "idle"]
    /\ sRes = [s \in Senders |-> <<>>]
    /\ cPc = [c \in Closers |-> "idle"]
    /\ cCalls = 0
    /\ obs = [o \in Observers |-> "never"]
    /\ hPc = "start"
    /\ canFlush \in BOOLEAN
    /\ canNotify \in BOOLEAN
    /\ initErr = "nil"
    /\ headers \in PresetHeaders
    /\ status = 0
    /\ encIn = NoEvent
    /\ encOut = <<>>

\* client, err := ClientInit(w)
HClientInit ==
    /\ hPc = "start"
    /\ ClientInit
    /\ hPc' = IF initErr' = "nil" THEN "initOk" ELSE "initErr"
    /\ UNCHANGED <<variant, timeoutPos, clientVars, canFlush, canNotify,
                   status, encVars>>

\* mutant: no `return` after the status is written
HFail_FallsThrough ==
    /\ hPc = "initErr"
    /\ status' = 500
    /\ hPc' = "callback"
    /\ UNCHANGED <<variant, timeoutPos, clientVars, canFlush, canNotify,
                   initErr, headers, encVars>>

\* if err != nil { w.WriteHeader(http.StatusInternalServerError); return }
HFail ==
    /\ hPc = "initErr"
    /\ status' = 500
    /\ hPc' = "failed"
    /\ UNCHANGED <<variant, timeoutPos, clientVars, canFlush, canNotify,
                   initErr, headers, encVars>>

\* h.ServeHTTP(w, r) is called, the client in the request's context
HServe ==
    /\ hPc = "initOk"
    /\ hPc' = "callback"
    /\ UNCHANGED <<variant, timeoutPos, clientVars, canFlush, canNotify,
                   initErr, headers, status, encVars>>

\* The goroutine of h is sender 1: h calls Send itself, before it returns.
\* The other senders are goroutines h has started.
HSelf == CHOOSE s \in Senders : \A r \in Senders : s <= r

HSendCall(s) ==
    /\ IF s = HSelf THEN hPc = "callback"
                    ELSE hPc \in {"callback", "cbReturned", "run"}
    /\ SendCall(s)

\* h.ServeHTTP returns; h is not inside a call of Send
HCallbackReturn ==
    /\ hPc = "callback"
    /\ sPc[HSelf] = "idle"
    /\ hPc' = "cbReturned"
    /\ UNCHANGED <<variant, timeoutPos, clientVars, canFlush, canNotify,
                   initErr, headers, status, encVars>>

\* client.Run(r.Context())
HRunCall ==
    /\ hPc = "cbReturned"
    /\ runPc = "init"
    /\ runPc' = "writeOpen"
    /\ hPc' = "run"
    /\ UNCHANGED <<variant, timeoutPos, cur, connVars, done, envVars,
                   exitCause, accepted, sendVars, closeVars, obs, canFlush,
                   canNotify, initErr, headers, status, encVars>>

\* the statements of Handler's function
HStep ==
    \/ HClientInit
    \/ HFail
    \/ HServe
    \/ HCallbackReturn
    \/ HRunCall

HNext ==
    \/ HStep
    \/ \E s \in Senders : HSendCall(s)
    \/ RunStep
    \/ \E s \in Senders : RecvEvent(s)
    \/ RecvCloseNotify
    \/ RecvCtxDone
    \/ \E s \in Senders : SendClosed(s)
    \/ PeerDisconnect
    \/ CtxCancel

HandlerSpec == HInit /\ [][HNext]_vars

\* The goroutine of Handler's function runs while it can; h returns unless
\* it is blocked.
HandlerFairSpec == HandlerSpec /\ Fairness /\ WF_vars(HStep)

\* -------------------------------------------------------------- encoder
\* SSEEvent as a function of its receiver alone: an Event is drawn, and
\* SSEEvent is called on it once.
MaxDataLen == 3    \* length of Msg.Data and of a Comment
MaxFieldLen == 2   \* length of Msg.Event, Msg.Id and Msg.Retry

EncChars == {"x", NL}

\* the strings over EncChars of length n at most
Strs(n) == UNION {[1..k -> EncChars] : k \in 0..n}

EncInputs ==
    {Msg(e, d, i, r) : e \in Strs(MaxFieldLen), d \in Strs(MaxDataLen),
                       i \in Strs(MaxFieldLen), r \in Strs(MaxFieldLen)}
    \cup {Comment(c) : c \in Strs(MaxDataLen)}

EncInit ==
    /\ variant = "ctx"
    /\ timeoutPos = FALSE
    /\ runPc = "init"
    /\ cur = NoEvent
    /\ buf = <<>>
    /\ wire = <<>>
    /\ werr = FALSE
    /\ done = FALSE
    /\ peerGone = FALSE
    /\ ctxDone = FALSE
    /\ timerFired = FALSE
    /\ exitCause = "none"
    /\ accepted = <<>>
    /\ sPc = [s \in Senders |-> "idle"]
    /\ sRes = [s \in Senders |-> <<>>]
    /\ cPc = [c \in Closers |-> "idle"]
    /\ cCalls = 0
    /\ obs = [o \in Observers |-> "never"]
    /\ hPc = "direct"
    /\ canFlush = TRUE
    /\ canNotify = TRUE
    /\ initErr = "nil"
    /\ headers = SSEHeaders
    /\ status = 0
    /\ encIn \in EncInputs
    /\ encOut = <<>>

\* encOut = encIn.SSEEvent(); no SSEEvent returns the empty string
Encode ==
    /\ encOut = <<>>
    /\ encOut' = SSEEvent(encIn)
    /\ UNCHANGED <<variant, timeoutPos, clientVars, hVars, encIn>>

EncNext == Encode

EncSpec == EncInit /\ [][EncNext]_vars

\* ------------------------------------------------- senders that never stop
\* A sender here calls Send again and again, until a Send returns the
\* error.  So that this goes on for ever in finitely many states, these
\* actions keep no history: accepted and sRes get no entry for a Send that
\* succeeds, every event is the sender's first one, and wire holds the
\* block flushed last, not the whole output.
BusySendCall(s) ==
    /\ sPc[s] = "idle"
    /\ sRes[s] = <<>>
    /\ sPc' = [sPc EXCEPT ![s] = "select"]
    /\ UNCHANGED <<cfgVars, runPc, cur, connVars, done, envVars, exitCause,
                   accepted, sRes, closeVars, obs>>

\* case event := <-client.eventC, together with Send's case client.eventC <- event
BusyRecvEvent(s) ==
    /\ runPc = "select"
    /\ sPc[s] = "select"
    /\ cur' = EventFor(s, 1)
    /\ runPc' = "writeEvent"
    /\ sPc' = [sPc EXCEPT ![s] = "idle"]
    /\ UNCHANGED <<cfgVars, connVars, done, envVars, exitCause, accepted,
                   sRes, closeVars, obs>>

BusyFlushEvent ==
    /\ runPc = "flushEvent"
    /\ wire' = buf
    /\ buf' = <<>>
    /\ werr' = werr
    /\ runPc' = "select"
    /\ UNCHANGED <<cfgVars, cur, done, envVars, exitCause, accepted,
                   sendVars, closeVars, obs>>

BusyRunStep ==
    \/ WriteOpen
    \/ FlushOpen
    \/ WriteEvent
    \/ BusyFlushEvent
    \/ WriteClose
    \/ FlushClose
    \/ CloseDone

\* the cases of Run's select that end the loop
RunSelectExit ==
    \/ \E c \in Closers : RecvClose(c)
    \/ RecvCloseNotify
    \/ RecvCtxDone
    \/ RecvTimeout

BusyNext ==
    \/ RunCall
    \/ BusyRunStep
    \/ \E s \in Senders : BusyRecvEvent(s)
    \/ RunSelectExit
    \/ \E s \in Senders : BusySendCall(s)
    \/ \E s \in Senders : SendClosed(s)
    \/ \E c \in Closers : CloseCall(c)
    \/ \E c \in Closers : CloseReturn(c)
    \/ PeerDisconnect
    \/ CtxCancel
    \/ TimerFire

\* Weak fairness of every goroutine: of Run's statements, of its select as
\* a whole (whichever case it takes), of the senders, which call Send
\* whenever they can, and of what Fairness gives the others.
BusyFairness ==
    /\ WF_vars(BusyRunStep)
    /\ WF_vars(RunSelectExit \/ \E s \in Senders : BusyRecvEvent(s))
    /\ \A s \in Senders : WF_vars(BusySendCall(s))
    /\ \A s \in Senders : WF_vars(SendClosed(s))
    /\ \A c \in Closers : WF_vars(CloseReturn(c))
    /\ WF_vars(TimerFire)

BusySpec == Init /\ [][BusyNext]_vars /\ BusyFairness

\* A select that is run again and again with a case ready each time takes
\* that case at some time: Go's select chooses among the ready cases at
\* random.
SelectExitFair == SF_vars(RunSelectExit)

\* ======================================================================
\* Properties
\* ======================================================================

\* C1: a Send called after Run returned finds client.done closed and no
\* receiver on eventC, and this stays so: the done case of its select is
\* ready and the Send does not block; a Send that returns once client.done
\* is closed returns the closed-client error; and once Run has returned no
\* event is dequeued and no byte is handed to the connection.
C1_SendAfterRunReturns ==
    [][/\ \A s \in Senders :
              /\ (runPc = "returned" /\ sPc[s] = "idle" /\ sPc'[s] = "select")
                     => (done' /\ runPc' = "returned")
              /\ (runPc = "returned" /\ sPc[s] = "select" /\ sPc'[s] = "idle")
                     => (done /\ sRes'[s] = Append(sRes[s], "err"))
       /\ runPc = "returned" =>
              /\ done' /\ runPc' = "returned"
              /\ accepted' = accepted
              /\ <<buf, wire>>' = <<buf, wire>>]_vars

\* a sender's second Send returned the error after its first one had, so
\* the second was called after Run returned; neither event is on the wire
C1_Witness ==
    \E s \in Senders :
        /\ sRes[s] = <<"err", "err">>
        /\ Blocks(wire) = <<SSEEvent(openMsg), SSEEvent(closeMsg)>>

\* the rendered events the application hands to Send
AppBlocks == {SSEEvent(EventFor(s, k)) : s \in Senders, k \in 1..MaxSends}

\* C2: the bytes handed to the connection are, block by block: nothing
\* before Run writes; then the open block first and only first; then blocks
\* of application events; the close block at most once and only last, and
\* there last once Run has flushed it.
C2_OpenEventsClose ==
    LET B == Blocks(conn)
    IN  /\ (runPc \in {"init", "writeOpen"} <=> B = <<>>)
        /\ B # <<>> => B[1] = SSEEvent(openMsg)
        /\ \A i \in 2..Len(B) :
               /\ B[i] # SSEEvent(openMsg)
               /\ B[i] \in AppBlocks \/ B[i] = SSEEvent(closeMsg)
               /\ B[i] = SSEEvent(closeMsg) => i = Len(B)
        /\ (runPc \in {"flushClose", "closeDone", "returned"}
               <=> (B # <<>> /\ Last(B) = SSEEvent(closeMsg)))

\* Run has returned after flushing open, two events and close
C2_Witness ==
    /\ runPc = "returned"
    /\ Len(Blocks(wire)) = 4
    /\ Blocks(wire)[1] = SSEEvent(openMsg)
    /\ Blocks(wire)[4] = SSEEvent(closeMsg)

\* the Send calls that returned nil, as <<sender, number of the call>>
OkSends == {sk \in Senders \X (1..MaxSends) :
               sk[2] <= Len(sRes[sk[1]]) /\ sRes[sk[1]][sk[2]] = "ok"}

\* the places of event e in the sequence seq
Places(e, seq) == {i \in 1..Len(seq) : seq[i] = e}

\* the events the loop has dequeued and handed to Write
Written == IF runPc = "writeEvent" THEN SubSeq(accepted, 1, Len(accepted) - 1)
           ELSE accepted

\* C3: every event whose Send returned nil was dequeued exactly once; the
\* blocks handed to the connection after the open block are the dequeued
\* events, each once, in the order of their dequeuing (all but the one the
\* loop is about to write), and the close block comes after all of them;
\* of two Sends of one caller that returned nil, the earlier one's event
\* comes first.
C3_AcceptedWrittenOnceInOrder ==
    LET B == Blocks(conn)
    IN  /\ \A sk \in OkSends :
               Cardinality(Places(EventFor(sk[1], sk[2]), accepted)) = 1
        /\ Len(Written) > 0 => Len(B) >= 1 + Len(Written)
        /\ \A i \in 1..Len(Written) : B[i + 1] = SSEEvent(Written[i])
        /\ \A i \in (Len(Written) + 2)..Len(B) : B[i] = SSEEvent(closeMsg)
        /\ \A sk \in OkSends :
               Cardinality(Places(SSEEvent(EventFor(sk[1], sk[2])), B))
                   = (IF EventFor(sk[1], sk[2]) = cur /\ runPc = "writeEvent"
                      THEN 0 ELSE 1)
        /\ \A sk \in OkSends, sj \in OkSends :
               (sk[1] = sj[1] /\ sk[2] < sj[2]) =>
                   \A i \in Places(EventFor(sk[1], sk[2]), accepted),
                      j \in Places(EventFor(sj[1], sj[2]), accepted) : i < j

\* one caller's two Sends returned nil, and Run has returned
C3_Witness ==
    /\ runPc = "returned"
    /\ \E s \in Senders :
           /\ {<<s, 1>>, <<s, 2>>} \subseteq OkSends
           /\ accepted = <<EventFor(s, 1), EventFor(s, 2)>>

\* no source of termination has fired: the peer is there, the context is
\* not cancelled, the timer has not delivered and Close is not being called
NoTrigger ==
    /\ ~peerGone
    /\ ~ctxDone
    /\ ~timerFired
    /\ \A c \in Closers : cPc[c] = "idle"

\* the flushed bytes hold the open block first and the block of e after it,
\* and no close block up to there
OpenThenEvent(e) ==
    LET B == Blocks(wire)
    IN  /\ Len(B) >= 2
        /\ B[1] = SSEEvent(openMsg)
        /\ \E i \in 2..Len(B) :
               /\ B[i] = SSEEvent(e)
               /\ \A j \in 1..i : B[j] # SSEEvent(closeMsg)

\* C4: in a behaviour where no source of termination ever fires, once Run
\* has been called and a Send is waiting in its select, the flushed bytes
\* eventually hold the open block and then the block of the Send's event,
\* with no close block before them.
C4_SendEventuallyWritten ==
    \A s \in Senders, k \in 1..MaxSends :
        ([]NoTrigger) =>
            ((runPc # "init" /\ sPc[s] = "select" /\ Len(sRes[s]) = k - 1)
                ~> OpenThenEvent(EventFor(s, k)))

\* one Send was made, nothing has fired, and its event is on the wire
C4_Witness ==
    /\ NoTrigger
    /\ nSends = 1
    /\ runPc = "select"
    /\ \E s \in Senders : sRes[s] = <<"ok">> /\ OpenThenEvent(EventFor(s, 1))

\* C5: in a behaviour where Run terminates, every Send waiting in its
\* select eventually returns; a Send returns nil only by the loop dequeuing
\* its event, which happens before the close block is written, and a Send
\* still waiting when Run has returned returns the closed-client error.
C5_EverySendReturns ==
    /\ \A s \in Senders :
           (<>(runPc = "returned")) => ((sPc[s] = "select") ~> (sPc[s] = "idle"))
    /\ [][\A s \in Senders :
             (sPc[s] = "select" /\ sPc'[s] = "idle") =>
                 \/ /\ Last(sRes'[s]) = "ok"
                    /\ ~done
                    /\ accepted' = Append(accepted, EventFor(s, Len(sRes'[s])))
                    /\ ~Contains(conn, SSEEvent(closeMsg))
                 \/ /\ Last(sRes'[s]) = "err"
                    /\ done
                    /\ accepted' = accepted]_vars

\* Run has returned; one caller's Send returned nil and another caller's
\* Send the error
C5_Witness ==
    /\ runPc = "returned"
    /\ \E s \in Senders, r \in Senders :
           /\ sRes[s] = <<"ok">>
           /\ sRes[r] = <<"err">>

\* a block: the rendered open or close message or a rendered event
WholeBlock(b) ==
    b = SSEEvent(openMsg) \/ b = SSEEvent(closeMsg) \/ b \in AppBlocks

\* the block Run is writing: it is in the buffer between Write and Flush
InFlush ==
    IF runPc = "flushOpen" THEN SSEEvent(openMsg)
    ELSE IF runPc = "flushEvent" THEN SSEEvent(cur)
    ELSE IF runPc = "flushClose" THEN SSEEvent(closeMsg)
    ELSE <<>>

\* C6: the bytes handed to the connection change only in a step of Run's
\* own statements, in which no Send and no Close moves; such a step hands
\* one whole block to Write or flushes the one block written; so the buffer
\* is empty or holds exactly the block being written, and the flushed
\* bytes are a sequence of whole blocks.
C6_WholeBlocksOneWriter ==
    [][/\ (<<buf, wire>>' # <<buf, wire>>) =>
              /\ runPc' # runPc
              /\ sPc' = sPc /\ sRes' = sRes /\ cPc' = cPc
              /\ \/ buf = <<>> /\ wire' = wire /\ WholeBlock(buf')
                 \/ WholeBlock(buf) /\ wire' = wire \o buf /\ buf' = <<>>
       /\ buf' = InFlush'
       /\ (wire' # wire) =>
              \A i \in 1..Len(Blocks(wire')) : WholeBlock(Blocks(wire')[i])]_vars

\* the block of one Send's event is in the buffer while another Send
\* waits in its select
C6_Witness ==
    /\ runPc = "flushEvent"
    /\ buf = SSEEvent(cur)
    /\ Blocks(wire) = <<SSEEvent(openMsg)>>
    /\ \E s \in Senders : sPc[s] = "select" /\ sRes[s] = <<>>

\* the cancellation signal has fired or the peer has disconnected
Triggered == peerGone \/ ctxDone

\* C7 as claimed: once the cancellation signal has fired or the peer has
\* disconnected, the loop dequeues no further event.
C7_NoAcceptAfterTrigger ==
    [][Triggered => accepted' = accepted]_vars

\* C7 as amended: once the select of Run has taken the case of the
\* cancellation signal or of the peer's disconnect, the loop dequeues no
\* further event and hands nothing but the close block to the connection;
\* every event dequeued before has been written and flushed by then.
C7_NoAcceptAfterObservedTrigger ==
    [][(exitCause' \in {"peer", "ctx"}) =>
          /\ runPc' \in {"writeClose", "flushClose", "closeDone", "returned"}
          /\ exitCause \in {"peer", "ctx"} =>
                 /\ accepted' = accepted
                 /\ conn' # conn => conn' = conn \o SSEEvent(closeMsg)
          /\ exitCause = "none" =>
                 /\ accepted' = accepted
                 /\ buf = <<>>
                 /\ Blocks(wire) = <<SSEEvent(openMsg)>>
                        \o [i \in 1..Len(accepted) |-> SSEEvent(accepted[i])]]_vars

\* Run left its loop by the cancellation signal or the peer's disconnect
\* and has returned, and a Send is waiting
C7_Witness ==
    /\ exitCause \in {"peer", "ctx"}
    /\ runPc = "returned"
    /\ Len(accepted) >= 1
    /\ \E s \in Senders : sPc[s] = "select"

\* C8: client.done is open exactly until Run returns and closed from then
\* on; once closed it stays closed; an observer of Done() that has seen it
\* closed sees it closed at every later look, and sees it closed only if
\* it is.
C8_DoneSetOnceForGood ==
    [][/\ (~done) <=> (runPc # "returned")
       /\ done' <=> (runPc' = "returned")
       /\ done => done'
       /\ \A o \in Observers :
              /\ obs[o] = "set" => obs'[o] = "set"
              /\ obs'[o] = "set" => done'
              /\ obs'[o] = "unset" => obs[o] # "set"]_vars

\* an observer of Done() and a Send have both seen the done signal set
C8_Witness ==
    /\ done
    /\ \A o \in Observers : obs[o] = "set"
    /\ \E s \in Senders : sRes[s] # <<>> /\ Last(sRes[s]) = "err"

\* the number of close blocks among the bytes handed to the connection
CloseBlocks == Cardinality(Places(SSEEvent(closeMsg), Blocks(conn)))

\* C9: (timeout design) a Close waiting on a client whose Run was called
\* eventually returns, with Run returned; a Close returns only when the
\* close block is flushed and client.done is closed, and its return changes
\* nothing; a Close called after Run returned finds its done case ready and
\* nobody to take its request; whatever the number of Close calls, at most
\* one close block is handed to the connection.
C9_CloseWaitsForRun ==
    /\ \A c \in Closers :
           (cPc[c] = "loop" /\ runPc # "init")
               ~> (cPc[c] = "idle" /\ runPc = "returned")
    /\ [][\A c \in Closers :
             (cPc[c] = "loop" /\ cPc'[c] = "idle") =>
                 /\ done
                 /\ Blocks(wire) # <<>>
                 /\ Last(Blocks(wire)) = SSEEvent(closeMsg)
                 /\ <<runPc, buf, wire, accepted, exitCause, done>>'
                        = <<runPc, buf, wire, accepted, exitCause, done>>]_vars
    /\ [][\A c \in Closers :
             (runPc = "returned" /\ cPc[c] = "idle" /\ cPc'[c] = "loop") =>
                 (done' /\ runPc' = "returned")]_vars
    /\ [](CloseBlocks <= 1)

\* the loop has taken one of two concurrent Close requests and flushed the
\* close block; both Close calls are still waiting for client.done
C9_Witness ==
    /\ exitCause = "close"
    /\ runPc = "closeDone"
    /\ \A c \in Closers : cPc[c] = "loop"

\* C10: once a Write on the connection has returned an error, the loop
\* dequeues no further event: it leaves as if the peer had disconnected.
C10_WriteFaultEndsLoop ==
    [][werr => (accepted' = accepted /\ runPc' # "writeEvent")]_vars


\* C11: ClientInit on a connection that cannot flush, or cannot report the
\* peer's disconnection, returns an error and no client and leaves the
\* connection as it was: no header field set, no byte written, no status.
\* On a connection that can do both it returns a client that is not
\* running, with done unset, and has set the three header fields; no byte
\* of the body is ever written before them.
C11_ClientInitAllOrNothing ==
    /\ [][(hPc = "start" /\ hPc' # "start") =>
             IF canFlush /\ canNotify
             THEN /\ hPc' = "initOk"
                  /\ initErr' = "nil"
                  /\ SSEHeaders \subseteq headers'
                  /\ Cardinality({x[1] : x \in headers'}) = Cardinality(headers')
                  /\ conn' = <<>>
                  /\ runPc' = "init"
                  /\ ~done'
             ELSE /\ hPc' = "initErr"
                  /\ initErr' # "nil"
                  /\ headers' = headers
                  /\ conn' = conn
                  /\ status' = status]_vars
    /\ [](conn # <<>> => SSEHeaders \subseteq headers)

C11_Witness ==
    /\ hPc = "initErr"
    /\ canFlush /\ ~canNotify
    /\ initErr = "unable to start close handler"
    /\ headers = {<<"Content-Type", "text/html">>}



C13_CallbackSendCompletes ==
    (hPc = "callback" /\ sPc[HSelf] = "select") ~> (hPc = "run")



\* ------------------------------------------------- the encoder's output
RECURSIVE SplitFrom(_, _, _)
\* w from index i on, cut at every newline; acc is the line begun
SplitFrom(w, i, acc) ==
    IF i > Len(w) THEN <<acc>>
    ELSE IF w[i] = NL THEN <<acc>> \o SplitFrom(w, i + 1, <<>>)
    ELSE SplitFrom(w, i + 1, Append(acc, w[i]))

\* the lines of w; a w that ends with a newline has an empty last line
Lines(w) == SplitFrom(w, 1, <<>>)

HasPrefix(w, pre) == Len(w) >= Len(pre) /\ SubSeq(w, 1, Len(pre)) = pre

\* the field names in the order of the format, and a Msg's values in it
FieldNames == <<S_event, S_data, S_id, S_retry>>
FieldValues(msg) == <<msg.Event, msg.Data, msg.Id, msg.Retry>>
FieldIds == DOMAIN FieldNames

LinePrefix(k) == FieldNames[k] \o <<":", " ">>

\* the lines of a rendered Msg before the blank line that ends it
FieldLines(out) == LET L == Lines(out) IN SubSeq(L, 1, Len(L) - 2)

\* C14: whichever fields of a Msg are empty, SSEEvent returns the lines of
\* the non-empty fields in the order event, data, id, retry, no line for an
\* empty field, and one blank line at the end and nowhere else; a Msg with
\* every field empty gives exactly "\n".
C14_NonEmptyFieldsInOrder ==
    (encOut # <<>> /\ encIn.kind = "Msg") =>
        LET L == Lines(encOut)
            F == FieldLines(encOut)
        IN  /\ Len(L) >= 2
            /\ L[Len(L)] = <<>> /\ L[Len(L) - 1] = <<>>
            /\ \A j \in 1..Len(F) : \E k \in FieldIds : HasPrefix(F[j], LinePrefix(k))
            /\ \A k \in FieldIds :
                 (FieldValues(encIn)[k] # <<>>) <=>
                     (\E j \in 1..Len(F) : HasPrefix(F[j], LinePrefix(k)))
            /\ \A j1, j2 \in 1..Len(F) : \A k1, k2 \in FieldIds :
                 (j1 < j2 /\ HasPrefix(F[j1], LinePrefix(k1))
                          /\ HasPrefix(F[j2], LinePrefix(k2))) => k1 <= k2
            /\ (\A k \in FieldIds : FieldValues(encIn)[k] = <<>>) => encOut = <<NL>>

\* event and id set, data and retry empty
C14_Witness ==
    /\ encIn.kind = "Msg"
    /\ encIn.Event # <<>> /\ encIn.Data = <<>>
    /\ encIn.Id # <<>> /\ encIn.Retry = <<>>
    /\ Len(FieldLines(encOut)) = 2



RECURSIVE Join(_, _)
\* the elements of ss put together with sep between them
Join(ss, sep) ==
    IF ss = <<>> THEN <<>>
    ELSE IF Len(ss) = 1 THEN ss[1]
    ELSE ss[1] \o sep \o Join(Tail(ss), sep)

\* what a consumer reads as the data of a rendered Msg: the data lines
\* without their "data: ", joined with newlines
DataRead(out) ==
    LET pre == LinePrefix(2)
        D == SelectSeq(FieldLines(out), LAMBDA l : HasPrefix(l, pre))
        stripped == [j \in 1..Len(D) |-> SubSeq(D[j], Len(pre) + 1, Len(D[j]))]
    IN  Join(stripped, <<NL>>)

NewlinesIn(s) == Len(SelectSeq(s, LAMBDA c : c = NL))

\* C15: for every non-empty Data, with newlines at its start, at its end
\* or one after the other, the data lines of the rendered Msg, "data: "
\* taken off each and joined with newlines, are Data again; there is one
\* data line more than Data has newlines.
C15_DataRoundTrip ==
    (encOut # <<>> /\ encIn.kind = "Msg" /\ encIn.Data # <<>>) =>
        /\ DataRead(encOut) = encIn.Data
        /\ Len(SelectSeq(FieldLines(encOut),
                         LAMBDA l : HasPrefix(l, LinePrefix(2))))
             = NewlinesIn(encIn.Data) + 1

\* Data is three newlines: one at its start, one at its end, one after another
C15_Witness ==
    /\ encIn.kind = "Msg"
    /\ encIn.Data = <<NL, NL, NL>>
    /\ encIn.Event # <<>>
    /\ DataRead(encOut) = <<NL, NL, NL>>



\* a value on lines that each begin with the field name, a new line begun
\* at every newline of the value; nothing for an empty value
Continued(k, value) ==
    IF value = <<>> THEN <<>>
    ELSE LinePrefix(k) \o Replace(value, NL, <<NL>> \o LinePrefix(k)) \o <<NL>>

\* a value on one line, its newlines left out; nothing for an empty value
OneLine(k, value) ==
    IF value = <<>> THEN <<>>
    ELSE LinePrefix(k) \o SelectSeq(value, LAMBDA c : c # NL) \o <<NL>>

\* C16 as the specification states it: each of the four fields alike is
\* rendered as its name, ": " and the value, every newline of the value
\* followed by the name and ": " again.
C16_EveryFieldContinues ==
    (encOut # <<>> /\ encIn.kind = "Msg") =>
        encOut = Continued(1, encIn.Event) \o Continued(2, encIn.Data)
                 \o Continued(3, encIn.Id) \o Continued(4, encIn.Retry)
                 \o <<NL>>

\* C16: a non-empty Data is rendered as "data: " and the value, every
\* newline of the value followed by "data: " again; a non-empty Event, Id
\* or Retry is rendered on one line, as its name, ": " and the value with
\* its newlines left out.
C16_OnlyDataContinues ==
    (encOut # <<>> /\ encIn.kind = "Msg") =>
        /\ encOut = OneLine(1, encIn.Event) \o Continued(2, encIn.Data)
                    \o OneLine(3, encIn.Id) \o OneLine(4, encIn.Retry)
                    \o <<NL>>
        /\ \A k \in FieldIds \ {2} :
             Len(SelectSeq(FieldLines(encOut),
                           LAMBDA l : HasPrefix(l, LinePrefix(k)))) <= 1

\* an Id with a newline in it has been rendered
C16_Witness ==
    /\ encIn.kind = "Msg"
    /\ encIn.Id = <<"x", NL>>
    /\ encIn.Data = <<"x", NL, "x">>
    /\ encOut = S_data \o <<":", " ", "x", NL>> \o S_data \o <<":", " ", "x", NL>>
                \o S_id \o <<":", " ", "x", NL, NL>>



\* a trigger of termination is there for the loop to see
TriggerPending ==
    /\ runPc \notin {"init", "returned"}
    /\ \/ peerGone
       \/ variant = "ctx" /\ ctxDone
       \/ variant = "timeout" /\ timerFired
       \/ variant = "timeout" /\ \E c \in Closers : cPc[c] = "loop"

RunEnded ==
    /\ done
    /\ runPc = "returned"
    /\ buf = <<>>
    /\ Last(Blocks(wire)) = SSEEvent(closeMsg)

C18_DoneAfterCloseBlock ==
    /\ [](done =>
            /\ buf = <<>>
            /\ wire # <<>>
            /\ Last(Blocks(wire)) = SSEEvent(closeMsg)
            /\ Cardinality(Places(SSEEvent(closeMsg), Blocks(wire))) = 1)
    /\ [][(done \/ done') => (wire' = wire /\ buf' = buf)]_vars

\* done is set after the peer went away, and a Send has returned since
C18_Witness ==
    /\ done
    /\ exitCause = "peer"
    /\ Len(Blocks(wire)) = 3
    /\ \E s \in Senders : sRes[s] = <<"ok", "err">>



\* the Send calls that have returned: <<s, k>> is the k-th call of sender s
Returned == {sk \in Senders \X (1..MaxSends) : sk[2] <= Len(sRes[sk[1]])}

\* C19: a Send returns the error only when client.done is closed.  Every
\* Send that returns, a Send that races with termination too, returns one
\* of two results: nil, and then its event was dequeued and is written
\* before the close block; or the error, and then its event was not
\* dequeued and is never written.
C19_ErrorOnlyWhenClosed ==
    /\ [](\A sk \in Returned :
            LET e == EventFor(sk[1], sk[2])
                B == Blocks(conn)
            IN  IF sRes[sk[1]][sk[2]] = "err"
                THEN /\ done
                     /\ Places(e, accepted) = {}
                     /\ Places(SSEEvent(e), B) = {}
                ELSE /\ sRes[sk[1]][sk[2]] = "ok"
                     /\ Places(e, accepted) # {}
                     /\ \A j \in Places(SSEEvent(closeMsg), B) :
                            \E i \in Places(SSEEvent(e), B) : i < j)
    /\ [][\A s \in Senders :
             /\ (sPc[s] = "select" /\ sPc'[s] = "idle") =>
                    /\ Len(sRes'[s]) = Len(sRes[s]) + 1
                    /\ Last(sRes'[s]) = "err" <=> done
                    /\ Last(sRes'[s]) = "ok" <=> ~done
             /\ sRes'[s] # sRes[s] => (sPc[s] = "select" /\ sPc'[s] = "idle")]_vars

\* two Sends wait while the context is cancelled; the loop takes one
\* event, then leaves: one Send has returned nil, the other the error
C19_Witness ==
    /\ variant = "ctx"
    /\ exitCause = "ctx"
    /\ \E s1, s2 \in Senders : sRes[s1] = <<"ok">> /\ sRes[s2] = <<"err">>
    /\ Blocks(wire) = <<SSEEvent(openMsg), SSEEvent(accepted[1]), SSEEvent(closeMsg)>>



\* the number of blocks of application events handed to the connection
AppBlocksWritten ==
    LET B == Blocks(conn)
    IN  Cardinality({i \in 1..Len(B) : B[i] \in AppBlocks})

\* C20: eventC has no buffer.  A Send has returned nil only if the loop has
\* dequeued its event: the Sends that returned nil are as many as the
\* events dequeued, and each one's event is among them.  At most one event
\* is dequeued and not yet written, however many senders wait, and there is
\* one exactly while the loop is between its receive and its write.
C20_UnbufferedHandoff ==
    /\ Cardinality(OkSends) = Len(accepted)
    /\ \A sk \in OkSends : Places(EventFor(sk[1], sk[2]), accepted) # {}
    /\ Len(accepted) - AppBlocksWritten \in {0, 1}
    /\ AppBlocksWritten <= Len(accepted)
    /\ (Len(accepted) - AppBlocksWritten = 1) <=> (runPc = "writeEvent")

\* one event is dequeued and not yet written; another sender waits
C20_Witness ==
    /\ runPc = "writeEvent"
    /\ Len(accepted) = 1
    /\ AppBlocksWritten = 0
    /\ \E s \in Senders : sPc[s] = "select"


=============================================================================
